---- MODULE Spec2Model ----
(***************************************************************************)
(* TrajectoryLogger (src/trl/trainer/trajectory_logger.py): the per-turn   *)
(* recorder (log_turn), the per-step finalizer (finalize_trajectories) and *)
(* the report generator (generate_html_report), as a state machine.        *)
(*                                                                         *)
(* A Python dict is a TLA+ function whose domain is the set of keys the    *)
(* dict holds: "k in d" is k \in DOMAIN d, "del d[k]" restricts the domain.*)
(* The spec's names map to the code's: record_turn = log_turn,             *)
(* finalize_batch = finalize_trajectories, generate_report =               *)
(* generate_html_report.                                                   *)
(***************************************************************************)
EXTENDS Integers, Sequences, FiniteSets, TLC

(* ------------------------------ bounds --------------------------------- *)
\* steps are 0..MaxStep, prompt indexes 0..MaxPrompt, generation indexes
\* 0..MaxGen, turn indexes 0..MaxTurnIdx
MaxStep == 1
MaxPrompt == 1
MaxGen == 1
MaxTurnIdx == 1
\* the configured quota is None or 1..MaxQuota
MaxQuota == 2
\* a behaviour makes at most MaxCalls calls of the logger's methods
MaxCalls == 4

\* max_trajectories_per_step = None (the default of __init__)
NoQuota == -1

Steps == 0..MaxStep
Prompts == 0..MaxPrompt
Gens == 0..MaxGen
TurnIdxs == 0..MaxTurnIdx
Keys == Steps \X Prompts \X Gens
Quotas == {NoQuota} \cup (1..MaxQuota)

(* ------------------------------ state ---------------------------------- *)
VARIABLES
    driver,                       \* the training run: the steps, prompt indexes and generation indexes it logs
    config,                       \* save_images, save_prompts, save_responses, max_trajectories_per_step
    active_trajectories,          \* dict: (step, prompt_idx, gen_idx) -> {trajectory_id, turns, metadata[, reward]}
    trajectories_logged_per_step, \* defaultdict(int): step -> trajectories started
    trajectory_files,             \* <output_dir>/trajectories: trajectory_id -> JSON document
    image_files,                  \* <output_dir>/images: the image files saved
    report_files,                 \* <output_dir>/report_*.html: report name -> the documents it renders
    printed,                      \* what the most recent call printed
    raised,                       \* the exception the most recent call propagated
    result,                       \* the value the most recent call returned
    call,                         \* the most recent call and its arguments
    clock,                        \* number of calls made so far; datetime.now() reads it
    created,                      \* history: per key, how many times an in-flight entry was created
    written,                      \* history: per trajectory_id, how many times its JSON file was written
    presented,                    \* history: per key, the turn_idx of the log_turn calls that returned
                                  \*          since the key's in-flight entry was last created
    turned_away,                  \* history: keys first presented to log_turn when the quota was exhausted
    refinalized                   \* history: the most recent call is finalize_trajectories with the arguments
                                  \*          of the call right before it, a finalize_trajectories that returned

vars == <<driver, config, active_trajectories, trajectories_logged_per_step, trajectory_files,
          image_files, report_files, printed, raised, result, call, clock,
          created, written, presented, turned_away, refinalized>>

(* ----------------------------- identifiers ----------------------------- *)
\* f"{n:0{w}d}": the decimal digits of n, zero-padded on the left to width w
RECURSIVE Digits(_)
Digits(n) == IF n < 10 THEN <<n>> ELSE Append(Digits(n \div 10), n % 10)

RECURSIVE ZeroPad(_, _)
ZeroPad(ds, w) == IF Len(ds) >= w THEN ds ELSE ZeroPad(<<0>> \o ds, w)

Fmt(n, w) == ZeroPad(Digits(n), w)

\* traj_id = f"step{step:06d}_p{prompt_idx:03d}_g{gen_idx:02d}"
TrajId(step, prompt_idx, gen_idx) ==
    <<"step", Fmt(step, 6), "_p", Fmt(prompt_idx, 3), "_g", Fmt(gen_idx, 2)>>

\* image_filename = f"{traj_id}_turn{turn_idx:02d}.png"
ImageFilename(traj_id, turn_idx) == <<traj_id, "_turn", Fmt(turn_idx, 2), ".png">>

\* f"images/{image_filename}"
ImagePath(image_filename) == <<"images/", image_filename>>

TrajIds == {TrajId(k[1], k[2], k[3]) : k \in Keys}

EmptyDict == [x \in {} |-> 0]

(* ------------------------------ __init__ ------------------------------- *)
Configs ==
    [save_images : BOOLEAN, save_prompts : BOOLEAN, save_responses : BOOLEAN,
     max_trajectories_per_step : Quotas]

\* the training run that calls the logger (lines 12-17): log_turn is called for
\* the keys of its batches
Drivers == [steps : SUBSET Steps, prompts : SUBSET Prompts, gens : SUBSET Gens]

FullDriver == [steps |-> Steps, prompts |-> Prompts, gens |-> Gens]

InitWith(drivers, cfgs) ==
    /\ driver \in drivers
    /\ config \in cfgs
    /\ active_trajectories = EmptyDict
    /\ trajectories_logged_per_step = [s \in Steps |-> 0]
    /\ trajectory_files = EmptyDict
    /\ image_files = {}
    /\ report_files = EmptyDict
    /\ printed = <<>>
    /\ raised = "none"
    /\ result = "None"
    /\ call = [op |-> "__init__"]
    /\ clock = 0
    /\ created = [k \in Keys |-> 0]
    /\ written = [i \in TrajIds |-> 0]
    /\ presented = [k \in Keys |-> <<>>]
    /\ turned_away = {}
    /\ refinalized = FALSE

\* the logger of the quota and finalization runs: text and image capture off
QuotaConfigs ==
    {c \in Configs : /\ ~c.save_images /\ ~c.save_prompts /\ c.save_responses
                     /\ c.max_trajectories_per_step # NoQuota}

Init == InitWith({FullDriver}, QuotaConfigs)

(* ------------------------------ log_turn ------------------------------- *)
\* the arguments the driver passes
PromptIds == {<<101, 7>>}
Completions == {"answer"}
\* image: None, an object with a save method whose save succeeds, one whose
\* save raises, an object without a save method
Images == {"None", "PIL", "PIL_save_raises", "not_PIL"}
\* processing_class: None, a tokenizer, a tokenizer whose decode raises
ProcessingClasses == {"None", "tokenizer", "tokenizer_decode_raises"}

\* processing_class.decode(prompt_ids, skip_special_tokens=True)
Decode(prompt_ids) == <<"decoded", prompt_ids>>

\* the limit check without its "is not None" test
LimitReachedWithoutNoneTest(step) ==
    trajectories_logged_per_step[step] >= config.max_trajectories_per_step

\* the limit check with > for >=
LimitReachedOffByOne(step) ==
    /\ config.max_trajectories_per_step # NoQuota
    /\ trajectories_logged_per_step[step] > config.max_trajectories_per_step

\* lines 92-95: the limit check, made before the key is looked at
LimitReached(step) ==
    /\ config.max_trajectories_per_step # NoQuota
    /\ trajectories_logged_per_step[step] >= config.max_trajectories_per_step

\* line 102: traj_key not in self.active_trajectories
IsFirstTurn(traj_key) == traj_key \notin DOMAIN active_trajectories

\* lines 103-111: the entry of a first turn
NewTrajectory(step, prompt_idx, gen_idx) ==
    [trajectory_id |-> TrajId(step, prompt_idx, gen_idx),
     turns |-> <<>>,
     metadata |-> [step |-> step, prompt_idx |-> prompt_idx, gen_idx |-> gen_idx]]

\* the counter set to 1 for a started trajectory
CountStartedAsFlag(counts, step) == [counts EXCEPT ![step] = 1]

\* line 112: self.trajectories_logged_per_step[step] += 1
CountStarted(counts, step) == [counts EXCEPT ![step] = @ + 1]

\* lines 119-121: decode is called, and may raise
DecodeCalled(processing_class) == config.save_prompts /\ processing_class # "None"

\* the image fields with image_path stored ahead of the save
ImageFieldsPathFirst(traj_id, turn_idx, image) ==
    IF config.save_images /\ image # "None"
    THEN IF image = "PIL"
         THEN [image_path |-> ImagePath(ImageFilename(traj_id, turn_idx))]
         ELSE IF image = "PIL_save_raises"
              THEN [image_path |-> ImagePath(ImageFilename(traj_id, turn_idx)),
                    image_error |-> "str(e)"]
              ELSE [image_error |-> "Not a PIL Image"]
    ELSE EmptyDict

\* lines 128-140: the image fields of the turn
ImageFields(traj_id, turn_idx, image) ==
    IF config.save_images /\ image # "None"
    THEN IF image = "PIL"
         THEN [image_path |-> ImagePath(ImageFilename(traj_id, turn_idx))]
         ELSE IF image = "PIL_save_raises"
              THEN [image_error |-> "str(e)"]
              ELSE [image_error |-> "Not a PIL Image"]
    ELSE EmptyDict

\* line 134: image.save(image_path) completed
ImageSaved(image) == config.save_images /\ image = "PIL"

\* lines 114-140: turn_data
TurnData(traj_id, turn_idx, prompt_ids, completion, image, processing_class) ==
    [turn_idx |-> turn_idx]
    @@ (IF DecodeCalled(processing_class) THEN [prompt |-> Decode(prompt_ids)] ELSE EmptyDict)
    @@ (IF config.save_responses THEN [response |-> completion] ELSE EmptyDict)
    @@ ImageFields(traj_id, turn_idx, image)

\* lines 102-112: the dict after the first-turn initialisation
WithTrajectory(step, prompt_idx, gen_idx) ==
    LET traj_key == <<step, prompt_idx, gen_idx>>
    IN  IF IsFirstTurn(traj_key)
        THEN (traj_key :> NewTrajectory(step, prompt_idx, gen_idx)) @@ active_trajectories
        ELSE active_trajectories

\* line 143: self.active_trajectories[traj_key]["turns"].append(turn_data)
AppendTurn(trajs, traj_key, turn_data) ==
    [trajs EXCEPT ![traj_key].turns = Append(@, turn_data)]

\* the quota of the step is exhausted (the spec's notion, on the raw state)
QuotaExhausted(step) ==
    /\ config.max_trajectories_per_step # NoQuota
    /\ trajectories_logged_per_step[step] >= config.max_trajectories_per_step

LogTurn(step, prompt_idx, gen_idx, turn_idx, prompt_ids, completion, image, processing_class) ==
    LET traj_key == <<step, prompt_idx, gen_idx>>
        traj_id == TrajId(step, prompt_idx, gen_idx)
        first == IsFirstTurn(traj_key)
        started == WithTrajectory(step, prompt_idx, gen_idx)
    IN
    /\ clock < MaxCalls
    /\ clock' = clock + 1
    /\ call' = [op |-> "log_turn", traj_key |-> traj_key, turn_idx |-> turn_idx,
                image |-> image, processing_class |-> processing_class]
    /\ printed' = <<>>
    /\ result' = "None"
    /\ refinalized' = FALSE
    /\ turned_away' = IF QuotaExhausted(step) /\ created[traj_key] = 0
                      THEN turned_away \cup {traj_key} ELSE turned_away
    /\ UNCHANGED <<driver, config, trajectory_files, report_files, written>>
    /\ IF LimitReached(step)
       THEN \* line 96: return
            /\ raised' = "none"
            /\ presented' = IF traj_key \in DOMAIN active_trajectories
                            THEN [presented EXCEPT ![traj_key] = Append(@, turn_idx)]
                            ELSE presented
            /\ UNCHANGED <<active_trajectories, trajectories_logged_per_step,
                           image_files, created>>
       ELSE /\ trajectories_logged_per_step' =
                  IF first
                  THEN CountStarted(trajectories_logged_per_step, step)
                  ELSE trajectories_logged_per_step
            /\ created' = IF first THEN [created EXCEPT ![traj_key] = @ + 1] ELSE created
            /\ IF DecodeCalled(processing_class) /\ processing_class = "tokenizer_decode_raises"
               THEN \* line 120 raises: the entry of lines 103-112 stays, no turn is appended
                    /\ raised' = "decode"
                    /\ active_trajectories' = started
                    /\ presented' = IF first THEN [presented EXCEPT ![traj_key] = <<>>]
                                    ELSE presented
                    /\ UNCHANGED image_files
               ELSE /\ raised' = "none"
                    /\ active_trajectories' =
                          AppendTurn(started, traj_key,
                                     TurnData(traj_id, turn_idx, prompt_ids, completion,
                                              image, processing_class))
                    /\ image_files' = IF ImageSaved(image)
                                      THEN image_files \cup {ImageFilename(traj_id, turn_idx)}
                                      ELSE image_files
                    /\ presented' = [presented EXCEPT ![traj_key] =
                                        Append(IF first THEN <<>> ELSE @, turn_idx)]

\* line 128 reads image only when save_images is set, line 119 reads
\* processing_class only when save_prompts is set: otherwise one value stands
\* for all of them
ImagesRead == IF config.save_images THEN Images ELSE {"None"}
ProcessingClassesRead == IF config.save_prompts THEN ProcessingClasses ELSE {"None"}

LogTurnCall ==
    \E step \in driver.steps, prompt_idx \in driver.prompts, gen_idx \in driver.gens,
       turn_idx \in TurnIdxs,
       prompt_ids \in PromptIds, completion \in Completions,
       image \in ImagesRead, processing_class \in ProcessingClassesRead :
        LogTurn(step, prompt_idx, gen_idx, turn_idx, prompt_ids, completion,
                image, processing_class)

(* ------------------------- finalize_trajectories ----------------------- *)
Modes == {"train", "eval"}

\* the outcome dict of trajectories[prompt_idx][gen_idx]: every field given at
\* an even gen_idx, none at an odd one
Outcome(prompt_idx, gen_idx) ==
    IF gen_idx % 2 = 0
    THEN [reward |-> 1 - 2 * prompt_idx, trajectory_length |-> 2 + prompt_idx,
          done |-> TRUE, terminated_naturally |-> TRUE]
    ELSE EmptyDict

\* the row lengths of the 2-D structures passed: 0..MaxPrompt+1 rows of
\* 1..MaxGen+1 outcomes each, rows of equal or unequal length
Shapes == UNION {[1..n -> 1..(MaxGen + 1)] : n \in 0..(MaxPrompt + 1)}

\* trajectories[prompt_idx][gen_idx] is Trajectories(shape)[prompt_idx + 1][gen_idx + 1]
Trajectories(shape) ==
    [p \in 1..Len(shape) |-> [g \in 1..shape[p] |-> Outcome(p - 1, g - 1)]]

TrajectoriesArgs == {Trajectories(shape) : shape \in Shapes}

\* line 159
NumPrompts(trajectories) == Len(trajectories)

\* line 160
NumGenerations(trajectories) ==
    IF NumPrompts(trajectories) > 0 THEN Len(trajectories[1]) ELSE 0

\* the test of line 167 taken as true for every key
NotLoggedAnyKey(trajs, traj_key) == TRUE

\* line 167: traj_key not in self.active_trajectories
NotLogged(trajs, traj_key) == traj_key \notin DOMAIN trajs

\* dict.get(key, default)
Get(d, key, default) == IF key \in DOMAIN d THEN d[key] ELSE default

\* the metadata update with trajectory_length taken from the turns logged
WithOutcomeLengthOfTurns(logged_traj, traj, mode, now) ==
    ("reward" :> Get(traj, "reward", 0))
    @@ [logged_traj EXCEPT !.metadata =
            [mode |-> mode,
             timestamp |-> now,
             trajectory_length |-> Len(logged_traj.turns),
             done |-> Get(traj, "done", FALSE),
             terminated_naturally |-> Get(traj, "terminated_naturally", FALSE)] @@ @]

\* lines 174-183: metadata.update({...}) and logged_traj["reward"] = ...
WithOutcome(logged_traj, traj, mode, now) ==
    ("reward" :> Get(traj, "reward", 0))
    @@ [logged_traj EXCEPT !.metadata =
            [mode |-> mode,
             timestamp |-> now,
             trajectory_length |-> Get(traj, "trajectory_length", 0),
             done |-> Get(traj, "done", FALSE),
             terminated_naturally |-> Get(traj, "terminated_naturally", FALSE)] @@ @]

\* line 192: del self.active_trajectories[traj_key]
Del(trajs, traj_key) == [k \in (DOMAIN trajs) \ {traj_key} |-> trajs[k]]

\* the JSON document written to a file named by the step alone
WriteJsonPerStep(files, traj_id, doc) ==
    (<<"step", traj_id[2], "_p", Fmt(0, 3), "_g", Fmt(0, 2)>> :> doc) @@ files

\* lines 188-189: the JSON document is written to trajectories/<traj_id>.json
WriteJson(files, traj_id, doc) == (traj_id :> doc) @@ files

\* lines 162-192: the loop from its i-th (prompt_idx, gen_idx) pair on; st holds
\* the in-flight dict, the trajectories directory, the write counts and the
\* exception raised. unwritable is the key whose open(json_path, "w") fails.
RECURSIVE FinalizeLoop(_, _, _, _, _, _, _)
FinalizeLoop(i, st, trajectories, step, mode, now, unwritable) ==
    LET num_generations == NumGenerations(trajectories)
        total == NumPrompts(trajectories) * num_generations
    IN
    IF i >= total THEN st
    ELSE
    LET prompt_idx == i \div num_generations
        gen_idx == i % num_generations
        traj_key == <<step, prompt_idx, gen_idx>>
    IN
    IF NotLogged(st.active, traj_key)
    THEN FinalizeLoop(i + 1, st, trajectories, step, mode, now, unwritable)
    ELSE IF gen_idx >= Len(trajectories[prompt_idx + 1])
    THEN \* line 170: trajectories[prompt_idx][gen_idx] raises IndexError
         [st EXCEPT !.raised = "IndexError"]
    ELSE
    LET logged_traj == WithOutcome(st.active[traj_key],
                                   trajectories[prompt_idx + 1][gen_idx + 1], mode, now)
        updated == [st.active EXCEPT ![traj_key] = logged_traj]
        traj_id == logged_traj.trajectory_id
    IN
    IF traj_key = unwritable
    THEN \* line 188: open raises OSError; lines 174-183 have changed the entry
         [st EXCEPT !.active = updated, !.raised = "OSError"]
    ELSE FinalizeLoop(i + 1,
                      [active |-> Del(updated, traj_key),
                       files |-> WriteJson(st.files, traj_id, logged_traj),
                       written |-> [st.written EXCEPT ![traj_id] = @ + 1],
                       raised |-> "none"],
                      trajectories, step, mode, now, unwritable)

\* lines 195-196: the entries the clean-up counts
Remaining(trajs, step) == DOMAIN trajs

\* the clean-up without its clear()
CleanedUpKeepsAll(trajs, step) == trajs

\* line 197: the dict after the clean-up
CleanedUp(trajs, step) == [k \in (DOMAIN trajs) \ Remaining(trajs, step) |-> trajs[k]]

\* no key: every open succeeds
NoKey == <<>>

FinalizeTrajectories(trajectories, step, mode, unwritable) ==
    LET st == FinalizeLoop(0,
                           [active |-> active_trajectories, files |-> trajectory_files,
                            written |-> written, raised |-> "none"],
                           trajectories, step, mode, clock, unwritable)
    IN
    /\ clock < MaxCalls
    /\ clock' = clock + 1
    /\ call' = [op |-> "finalize_trajectories", trajectories |-> trajectories,
                step |-> step, mode |-> mode]
    /\ refinalized' = (call' = call /\ raised = "none")
    /\ trajectory_files' = st.files
    /\ written' = st.written
    /\ raised' = st.raised
    /\ result' = "None"
    /\ IF st.raised = "none" /\ Remaining(st.active, step) # {}
       THEN /\ active_trajectories' = CleanedUp(st.active, step)
            /\ printed' = <<[warning |-> Cardinality(Remaining(st.active, step))]>>
       ELSE /\ active_trajectories' = st.active
            /\ printed' = <<>>
    /\ UNCHANGED <<driver, config, trajectories_logged_per_step, image_files,
                   report_files, created, presented, turned_away>>

FinalizeCall ==
    \E trajectories \in TrajectoriesArgs, step \in driver.steps, mode \in Modes :
        \E unwritable \in {NoKey} \cup {k \in DOMAIN active_trajectories : k[1] = step} :
            FinalizeTrajectories(trajectories, step, mode, unwritable)

(* ------------------------- generate_html_report ------------------------ *)
\* step = None
NoStep == -1

\* the glob pattern *.json whatever the step
MatchesEveryFile(traj_id, step) == TRUE

\* lines 210-213: the glob pattern step{step:06d}_*.json, or *.json
Matches(traj_id, step) == step = NoStep \/ traj_id[2] = Fmt(step, 6)

\* the characters of a file name that differ between trajectory files
NameDigits(traj_id) == traj_id[2] \o traj_id[4] \o traj_id[6]

\* string order
RECURSIVE LexLess(_, _)
LexLess(a, b) ==
    IF a = <<>> THEN b # <<>>
    ELSE IF b = <<>> THEN FALSE
    ELSE IF Head(a) # Head(b) THEN Head(a) < Head(b)
    ELSE LexLess(Tail(a), Tail(b))

\* line 215: sorted(glob.glob(pattern))
RECURSIVE Sorted(_)
Sorted(ids) ==
    IF ids = {} THEN <<>>
    ELSE LET first == CHOOSE i \in ids :
                          \A j \in ids \ {i} : LexLess(NameDigits(i), NameDigits(j))
         IN  <<first>> \o Sorted(ids \ {first})

TrajectoryFilesFound(step) == Sorted({i \in DOMAIN trajectory_files : Matches(i, step)})

\* lines 262-295: one turn of the document
RenderTurn(turn) ==
    [header |-> turn.turn_idx + 1]
    @@ (IF "image_path" \in DOMAIN turn THEN [img |-> turn.image_path]
        ELSE IF "image_error" \in DOMAIN turn THEN [image_error |-> turn.image_error]
        ELSE EmptyDict)
    @@ (IF "prompt" \in DOMAIN turn THEN [prompt |-> turn.prompt] ELSE EmptyDict)
    @@ (IF "response" \in DOMAIN turn THEN [response |-> turn.response] ELSE EmptyDict)

\* lines 244-299: one trajectory of the document
RenderTrajectory(traj_data) ==
    LET reward == Get(traj_data, "reward", 0)
    IN  [trajectory_id |-> traj_data.trajectory_id,
         step |-> traj_data.metadata.step,
         length |-> traj_data.metadata.trajectory_length,
         reward |-> reward,
         reward_class |-> IF reward >= 0 THEN "positive" ELSE "negative",
         turns |-> [t \in 1..Len(Get(traj_data, "turns", <<>>)) |->
                        RenderTurn(traj_data.turns[t])]]

\* lines 307-310
HtmlPath(step) ==
    IF step # NoStep THEN <<"report_step", Fmt(step, 6), ".html">>
    ELSE <<"report_all.html">>

\* a report generator that removes the JSON documents it has rendered
GenerateHtmlReportConsuming(step) ==
    LET found == TrajectoryFilesFound(step)
    IN
    /\ clock < MaxCalls
    /\ clock' = clock + 1
    /\ call' = [op |-> "generate_html_report", step |-> step]
    /\ raised' = "none"
    /\ refinalized' = FALSE
    /\ printed' = <<[saved |-> HtmlPath(step)]>>
    /\ result' = HtmlPath(step)
    /\ report_files' =
          (HtmlPath(step) :>
               [i \in 1..Len(found) |-> RenderTrajectory(trajectory_files[found[i]])])
          @@ report_files
    /\ trajectory_files' =
          [i \in {j \in DOMAIN trajectory_files : ~Matches(j, step)} |-> trajectory_files[i]]
    /\ UNCHANGED <<driver, config, active_trajectories, trajectories_logged_per_step,
                   image_files, created, written, presented, turned_away>>

GenerateHtmlReport(step) ==
    LET found == TrajectoryFilesFound(step)
    IN
    /\ clock < MaxCalls
    /\ clock' = clock + 1
    /\ call' = [op |-> "generate_html_report", step |-> step]
    /\ raised' = "none"
    /\ refinalized' = FALSE
    /\ IF found = <<>>
       THEN \* lines 217-219
            /\ printed' = <<[not_found |-> step]>>
            /\ result' = "None"
            /\ UNCHANGED report_files
       ELSE /\ report_files' =
                  (HtmlPath(step) :>
                       [i \in 1..Len(found) |-> RenderTrajectory(trajectory_files[found[i]])])
                  @@ report_files
            /\ printed' = <<[saved |-> HtmlPath(step)]>>
            /\ result' = HtmlPath(step)
    /\ UNCHANGED <<driver, config, active_trajectories, trajectories_logged_per_step,
                   trajectory_files, image_files, created, written, presented,
                   turned_away>>

ReportCall == \E step \in driver.steps \cup {NoStep} : GenerateHtmlReport(step)

Next ==
    \/ LogTurnCall
    \/ FinalizeCall
    \/ ReportCall

Spec == Init /\ [][Next]_vars

(* ---------------------- the runs with capture on ----------------------- *)
\* a run whose batches hold one prompt: the keys (0, 0, g)
OnePromptDriver == [steps |-> {0}, prompts |-> {0}, gens |-> Gens]

\* the logger with image capture on (save_images, the default of __init__)
ImageConfigs ==
    {c \in Configs : c.save_images /\ ~c.save_prompts /\ c.save_responses}

InitImages == InitWith({OnePromptDriver}, ImageConfigs)

SpecImages == InitImages /\ [][Next]_vars

\* the logger with prompt capture on (save_prompts, the default of __init__)
PromptConfigs ==
    {c \in Configs : ~c.save_images /\ c.save_prompts /\ c.save_responses}

InitPrompts == InitWith({OnePromptDriver}, PromptConfigs)

SpecPrompts == InitPrompts /\ [][Next]_vars

\* the logger without quota (max_trajectories_per_step = None, the default)
NoQuotaConfigs ==
    {c \in Configs : /\ ~c.save_images /\ ~c.save_prompts /\ c.save_responses
                     /\ c.max_trajectories_per_step = NoQuota}

InitNoQuota == InitWith({FullDriver}, NoQuotaConfigs)

SpecNoQuota == InitNoQuota /\ [][Next]_vars

(* =============================== claims ================================ *)
KeysOfStep(step) == {k \in Keys : k[1] = step}

RECURSIVE SumOver(_, _)
SumOver(f, S) ==
    IF S = {} THEN 0
    ELSE LET x == CHOOSE y \in S : TRUE IN f[x] + SumOver(f, S \ {x})

\* number of in-flight entries ever created for the step
CreatedInStep(step) == SumOver(created, KeysOfStep(step))

Quota == config.max_trajectories_per_step

InFlight == DOMAIN active_trajectories

InFlightOfStep(step) == {k \in InFlight : k[1] = step}

FileOf(k) == TrajId(k[1], k[2], k[3])

\* C1: with a quota Q configured, the number of in-flight entries ever created
\* for one step is at most Q, whatever the interleaving of log_turn calls
\* across keys and steps and of finalize_trajectories calls.
C1_CreatedWithinQuota ==
    Quota # NoQuota => \A step \in Steps : CreatedInStep(step) <= Quota

\* C1's case: the quota of a step is used up, a further key of the step was
\* turned away, and a finalization came between two creations of the step.
C1_Witness ==
    \E step \in Steps :
        /\ Quota = MaxQuota
        /\ CreatedInStep(step) = Quota
        /\ \E k \in turned_away : k[1] = step
        /\ \E k \in KeysOfStep(step) : written[FileOf(k)] >= 1
        /\ InFlightOfStep(step) # {}

\* the step is a call of log_turn for key k / of finalize_trajectories for step
LogTurnCalledFor(k) ==
    /\ clock' = clock + 1
    /\ call'.op = "log_turn"
    /\ call'.traj_key = k

FinalizeCalledFor(step) ==
    /\ clock' = clock + 1
    /\ call'.op = "finalize_trajectories"
    /\ call'.step = step

\* the call returned to its caller without raising
Returned == raised' = "none"

Turns(k) == active_trajectories[k].turns

\* C2: a log_turn call for a key that already has an in-flight entry appends
\* exactly one turn to it, whatever the step's started-counter, also when the
\* counter has reached the configured maximum.
C2_AdmittedKeyAlwaysAppends ==
    [][\A k \in InFlight :
          (LogTurnCalledFor(k) /\ Returned)
              => /\ k \in InFlight'
                 /\ Len(Turns(k)') = Len(Turns(k)) + 1]_vars

\* C3 as stated: in every sequence of calls the JSON document of a trajectory
\* id is written at most once and, once written, never changed by a later call.
C3_WrittenOnceNeverChanged ==
    [][\A i \in TrajIds :
          /\ written'[i] <= 1
          /\ i \in DOMAIN trajectory_files
                => /\ i \in DOMAIN trajectory_files'
                   /\ trajectory_files'[i] = trajectory_files[i]]_vars

\* C3 amended: the JSON document of a key whose in-flight entry was created at
\* most once (the key is not started again after its entry was finalized or
\* dropped) is written at most once and, once written, never changed.
C3_WrittenOncePerCreation ==
    [][\A k \in Keys :
          created'[k] <= 1
              => /\ written'[FileOf(k)] <= 1
                 /\ FileOf(k) \in DOMAIN trajectory_files
                       => /\ FileOf(k) \in DOMAIN trajectory_files'
                          /\ trajectory_files'[FileOf(k)]
                                = trajectory_files[FileOf(k)]]_vars

\* C3's case: the document of a key was written by an earlier call, and the most
\* recent call finalized the key's step again with an outcome for the key.
C3_Witness ==
    \E k \in Keys :
        /\ created[k] = 1
        /\ written[FileOf(k)] = 1
        /\ trajectory_files[FileOf(k)].metadata.timestamp < clock - 1
        /\ call.op = "finalize_trajectories"
        /\ call.step = k[1]
        /\ raised = "none"
        /\ k[2] < Len(call.trajectories)
        /\ k[3] < Len(call.trajectories[k[2] + 1])

\* C4: finalize_trajectories for a step removes only in-flight entries of that
\* step: the entries of every other step are in the dict, unchanged, when the
\* call returns.
C4_OtherStepsKept ==
    [][\A step \in Steps :
          (FinalizeCalledFor(step) /\ Returned)
              => \A k \in InFlight :
                    k[1] # step
                        => /\ k \in InFlight'
                           /\ active_trajectories'[k] = active_trajectories[k]]_vars

\* C5: finalize_trajectories called twice in a row with the same (trajectories,
\* step, mode), the first call having returned: the second call raises nothing,
\* writes no JSON document, prints no warning and leaves the in-flight dict as
\* it was.
C5_SecondFinalizeIsNoOp ==
    [][(/\ call.op = "finalize_trajectories"
        /\ raised = "none"
        /\ clock' = clock + 1
        /\ call' = call)
          => /\ raised' = "none"
             /\ written' = written
             /\ trajectory_files' = trajectory_files
             /\ printed' = <<>>
             /\ active_trajectories' = active_trajectories]_vars

\* C5's case: the second of two identical calls has returned, and the first had
\* written the document of a trajectory of the step.
C5_Witness ==
    /\ refinalized
    /\ \E k \in KeysOfStep(call.step) :
          /\ written[FileOf(k)] = 1
          /\ trajectory_files[FileOf(k)].metadata.timestamp = clock - 2

\* the loop of finalize_trajectories reaches the pair of key k
PairReached(k, trajectories) ==
    /\ k[2] < Len(trajectories)
    /\ k[3] < Len(trajectories[1])

\* the structure holds an outcome for the pair of key k
OutcomeGiven(k, trajectories) ==
    /\ k[2] < Len(trajectories)
    /\ k[3] < Len(trajectories[k[2] + 1])

Rectangular(trajectories) ==
    \A p \in 1..Len(trajectories) : Len(trajectories[p]) = Len(trajectories[1])

IsWarning(out) == Len(out) = 1 /\ "warning" \in DOMAIN out[1]

Orphans(step, trajectories) ==
    {k \in InFlightOfStep(step) :
        Len(Turns(k)) > 0 /\ ~OutcomeGiven(k, trajectories)}

\* C7: when the (rectangular) structure given to finalize_trajectories omits
\* the pair of in-flight entries of the step, the call still returns, those
\* entries are dropped without a JSON document, and the warning printed counts
\* exactly them.
C7_WarningCountsOrphansOfStep ==
    [][\A step \in Steps :
          (/\ FinalizeCalledFor(step)
           /\ Returned
           /\ Rectangular(call'.trajectories)
           /\ Orphans(step, call'.trajectories) # {})
              => /\ \A k \in Orphans(step, call'.trajectories) :
                       /\ k \notin InFlight'
                       /\ written'[FileOf(k)] = written[FileOf(k)]
                 /\ printed' =
                       <<[warning |-> Cardinality(Orphans(step, call'.trajectories))]>>]_vars

\* C8: a log_turn call for a key without in-flight entry, made when the step's
\* started-counter has reached the maximum, changes nothing: no entry is
\* created, the counter keeps its value, no turn and no file is stored.
C8_TurnedAwayCallIsNoOp ==
    [][\A k \in Keys :
          (/\ LogTurnCalledFor(k)
           /\ k \notin InFlight
           /\ QuotaExhausted(k[1]))
              => /\ Returned
                 /\ active_trajectories' = active_trajectories
                 /\ trajectories_logged_per_step' = trajectories_logged_per_step
                 /\ trajectory_files' = trajectory_files
                 /\ image_files' = image_files]_vars

\* C8's case: the most recent call was turned away while other trajectories
\* are in flight.
C8_Witness ==
    /\ call.op = "log_turn"
    /\ call.traj_key \in turned_away
    /\ call.traj_key \notin InFlight
    /\ InFlightOfStep(call.traj_key[1]) # {}
    /\ trajectories_logged_per_step[call.traj_key[1]] = Quota

\* the run of the spec's quota scenario: quota 1, log_turn for (0,0,0), then
\* for (0,1,0), then finalize_trajectories of step 0 with outcomes for both
QuotaScenario ==
    /\ Quota = 1
    /\ clock = 3
    /\ created = [k \in Keys |-> IF k = <<0, 0, 0>> THEN 1 ELSE 0]
    /\ turned_away = {<<0, 1, 0>>}
    /\ call.op = "finalize_trajectories"
    /\ call.step = 0
    /\ raised = "none"
    /\ OutcomeGiven(<<0, 0, 0>>, call.trajectories)
    /\ OutcomeGiven(<<0, 1, 0>>, call.trajectories)

\* C9: a key first presented to log_turn when its step's quota was exhausted
\* never has a JSON document, whatever calls follow; after the quota scenario
\* the trajectories directory holds the document of (0,0,0) and no other.
C9_TurnedAwayNeverWritten ==
    /\ \A k \in turned_away : FileOf(k) \notin DOMAIN trajectory_files
    /\ QuotaScenario => DOMAIN trajectory_files = {FileOf(<<0, 0, 0>>)}

\* C9's case: the quota scenario has run.
C9_Witness == QuotaScenario

TurnIdxOf(turns) == [t \in 1..Len(turns) |-> turns[t].turn_idx]

\* C10: the turns of a JSON document, in stored order, carry the turn_idx of
\* the log_turn calls made for the key, in call order: none re-sorted,
\* duplicated or omitted.
C10_TurnsAreTheCallsInOrder ==
    [][\A k \in Keys :
          written'[FileOf(k)] = written[FileOf(k)] + 1
              => TurnIdxOf(trajectory_files'[FileOf(k)].turns) = presented[k]]_vars

\* an image argument whose save cannot complete: no save method, or save raises
BadImages == {"not_PIL", "PIL_save_raises"}

TurnsBefore(k) == IF k \in InFlight THEN Turns(k) ELSE <<>>

\* the call is not one the quota turns away: its key is in flight, or the
\* step's quota is not exhausted
Admitted(k) == k \in InFlight \/ ~QuotaExhausted(k[1])

\* C11: with save_images set, a log_turn call (not turned away by the quota)
\* whose image has no save method, or whose save raises, raises nothing and
\* appends exactly one turn, which has image_error and no image_path; the turns
\* stored before stay as they were, and the JSON document written later holds
\* the turns of the in-flight entry.
C11_BadImageStillAppends ==
    [][/\ \A k \in Keys :
             (/\ LogTurnCalledFor(k)
              /\ config.save_images
              /\ call'.image \in BadImages
              /\ Admitted(k))
                 => /\ Returned
                    /\ k \in InFlight'
                    /\ Len(Turns(k)') = Len(TurnsBefore(k)) + 1
                    /\ SubSeq(Turns(k)', 1, Len(TurnsBefore(k))) = TurnsBefore(k)
                    /\ "image_error" \in DOMAIN Turns(k)'[Len(Turns(k)')]
                    /\ "image_path" \notin DOMAIN Turns(k)'[Len(Turns(k)')]
       /\ \A k \in InFlight :
             written'[FileOf(k)] = written[FileOf(k)] + 1
                 => trajectory_files'[FileOf(k)].turns = Turns(k)]_vars

\* C12: with max_trajectories_per_step = None no log_turn call is skipped:
\* every call returns having created the in-flight entry of a new key (and
\* counted it) and appended exactly one turn, the turn of the call, however
\* many keys of the step are in flight.
C12_NoQuotaNeverSkips ==
    [][\A k \in Keys :
          (LogTurnCalledFor(k) /\ Quota = NoQuota)
              => /\ Returned
                 /\ k \in InFlight'
                 /\ InFlight' = InFlight \cup {k}
                 /\ Len(Turns(k)') = Len(TurnsBefore(k)) + 1
                 /\ SubSeq(Turns(k)', 1, Len(TurnsBefore(k))) = TurnsBefore(k)
                 /\ Turns(k)'[Len(Turns(k)')].turn_idx = call'.turn_idx
                 /\ trajectories_logged_per_step'[k[1]] =
                       trajectories_logged_per_step[k[1]]
                           + (IF k \in InFlight THEN 0 ELSE 1)]_vars

\* C12's case: without quota, every key of one step is in flight, each with
\* the turn of its call.
C12_Witness ==
    /\ Quota = NoQuota
    /\ call.op = "log_turn"
    /\ \E step \in Steps :
          /\ InFlight = KeysOfStep(step)
          /\ trajectories_logged_per_step[step] = Cardinality(KeysOfStep(step))
          /\ \A k \in InFlight : Len(Turns(k)) = 1

\* the step is a call of generate_html_report for step (NoStep: no step given)
ReportCalledFor(step) ==
    /\ clock' = clock + 1
    /\ call'.op = "generate_html_report"
    /\ call'.step = step

\* the keys whose JSON document is in the trajectories directory
Documented == {k \in Keys : FileOf(k) \in DOMAIN trajectory_files}

\* no JSON document of the step exists (no step given: of any step)
NoDocumentFor(step) ==
    IF step = NoStep THEN Documented = {}
    ELSE \A k \in Documented : k[1] # step

\* C13: generate_html_report called for a step without JSON document (or
\* without step when the directory holds none) writes no report file, returns
\* None and prints the not-found message.
C13_NothingFoundNothingWritten ==
    [][\A step \in Steps \cup {NoStep} :
          (ReportCalledFor(step) /\ NoDocumentFor(step))
              => /\ Returned
                 /\ report_files' = report_files
                 /\ result' = "None"
                 /\ printed' = <<[not_found |-> step]>>]_vars

\* C13's case: the report of a step without document was asked for while
\* another step has a document and a report.
C13_Witness ==
    /\ call.op = "generate_html_report"
    /\ call.step # NoStep
    /\ NoDocumentFor(call.step)
    /\ Documented # {}
    /\ report_files # EmptyDict
    /\ printed = <<[not_found |-> call.step]>>

\* C14: generate_html_report, for any step and however often called, leaves
\* the in-flight dict, the per-step counters and every JSON document as they
\* were.
C14_ReportReadsOnly ==
    [][\A step \in Steps \cup {NoStep} :
          ReportCalledFor(step)
              => /\ active_trajectories' = active_trajectories
                 /\ trajectories_logged_per_step' = trajectories_logged_per_step
                 /\ trajectory_files' = trajectory_files
                 /\ image_files' = image_files]_vars

\* C14's case: a report of a finalized trajectory was written while a
\* trajectory started after the finalization is in flight.
C14_Witness ==
    /\ call.op = "generate_html_report"
    /\ result # "None"
    /\ clock = MaxCalls
    /\ InFlight # {}
    /\ \E k \in Documented :
          trajectory_files[FileOf(k)].metadata.timestamp = 1

\* what finalize_trajectories owes the pair of key k: the in-flight entry is
\* written (its turns in the JSON document) and removed; without in-flight
\* entry nothing is written
PairSettled(k) ==
    IF k \in InFlight
    THEN /\ written'[FileOf(k)] = written[FileOf(k)] + 1
         /\ trajectory_files'[FileOf(k)].turns = Turns(k)
         /\ k \notin InFlight'
    ELSE /\ written'[FileOf(k)] = written[FileOf(k)]
         /\ k \notin InFlight'

\* C15 as stated: a finalize_trajectories call that returns has settled every
\* pair that has an outcome in the structure, rows of equal or unequal length.
C15_EveryPairGivenSettled ==
    [][\A step \in Steps :
          (FinalizeCalledFor(step) /\ Returned)
              => \A k \in KeysOfStep(step) :
                    OutcomeGiven(k, call'.trajectories) => PairSettled(k)]_vars

\* C15 amended: a finalize_trajectories call that returns, given a structure
\* whose rows all have the length of the first, has settled every pair that
\* has an outcome in the structure.
C15_EveryPairOfRectangleSettled ==
    [][\A step \in Steps :
          (/\ FinalizeCalledFor(step)
           /\ Returned
           /\ Rectangular(call'.trajectories))
              => \A k \in KeysOfStep(step) :
                    OutcomeGiven(k, call'.trajectories) => PairSettled(k)]_vars

\* C15's case: a call given a full rectangle of outcomes has written the
\* document of an in-flight trajectory and skipped a pair never started.
C15_Witness ==
    /\ call.op = "finalize_trajectories"
    /\ raised = "none"
    /\ Rectangular(call.trajectories)
    /\ \E k1, k2 \in KeysOfStep(call.step) :
          /\ OutcomeGiven(k1, call.trajectories)
          /\ OutcomeGiven(k2, call.trajectories)
          /\ written[FileOf(k1)] = 1
          /\ trajectory_files[FileOf(k1)].metadata.timestamp = clock - 1
          /\ created[k2] = 0
          /\ FileOf(k2) \notin DOMAIN trajectory_files

\* the turns stored: of the in-flight entries and of the JSON documents
StoredTurns ==
    UNION {{Turns(k)[t] : t \in 1..Len(Turns(k))} : k \in InFlight}
    \cup UNION {{trajectory_files[i].turns[t] : t \in 1..Len(trajectory_files[i].turns)} :
                    i \in DOMAIN trajectory_files}

\* at most one of image_path and image_error, and image_path names a file of
\* the images directory
ImageFieldsConsistent(turn) ==
    /\ ~("image_path" \in DOMAIN turn /\ "image_error" \in DOMAIN turn)
    /\ "image_path" \in DOMAIN turn
          => \E f \in image_files : turn.image_path = ImagePath(f)

\* C16: every turn stored, in flight or in a JSON document, has at most one of
\* image_path and image_error, and image_path names a saved image file; the
\* turn a log_turn call appends has image_path only if the call's image.save
\* completed, having written the file the path names.
C16_ImagePathOnlyAfterSave ==
    [][/\ \A turn \in StoredTurns' : ImageFieldsConsistent(turn)'
       /\ \A k \in Keys :
             (/\ LogTurnCalledFor(k)
              /\ k \in InFlight'
              /\ Len(Turns(k)') = Len(TurnsBefore(k)) + 1
              /\ "image_path" \in DOMAIN Turns(k)'[Len(Turns(k)')])
                 => /\ call'.image = "PIL"
                    /\ Returned
                    /\ ImageFilename(FileOf(k), call'.turn_idx) \in image_files'
                    /\ Turns(k)'[Len(Turns(k)')].image_path =
                          ImagePath(ImageFilename(FileOf(k), call'.turn_idx))]_vars

\* C16's case: a JSON document holds a turn whose image was saved and a turn
\* whose image.save raised.
C16_Witness ==
    \E i \in DOMAIN trajectory_files :
        /\ Len(trajectory_files[i].turns) = 2
        /\ "image_path" \in DOMAIN trajectory_files[i].turns[1]
        /\ "image_error" \in DOMAIN trajectory_files[i].turns[2]
        /\ trajectory_files[i].turns[2].image_error = "str(e)"
        /\ trajectory_files[i].turns[1].turn_idx = trajectory_files[i].turns[2].turn_idx

\* the call's metadata update and reward (lines 174-183) were applied to the
\* entry of key k, which is still in flight: its write is the one that failed
WriteFailedFor(k) ==
    /\ k \in InFlight'
    /\ "reward" \in DOMAIN active_trajectories'[k]
    /\ active_trajectories'[k].metadata.timestamp = clock

\* the JSON document of key k is the one the call found
DocumentKept(k) ==
    /\ written'[FileOf(k)] = written[FileOf(k)]
    /\ IF FileOf(k) \in DOMAIN trajectory_files
       THEN /\ FileOf(k) \in DOMAIN trajectory_files'
            /\ trajectory_files'[FileOf(k)] = trajectory_files[FileOf(k)]
       ELSE FileOf(k) \notin DOMAIN trajectory_files'

\* the call wrote the JSON document of key k, with the turns of its entry
DocumentWritten(k) ==
    /\ written'[FileOf(k)] = written[FileOf(k)] + 1
    /\ FileOf(k) \in DOMAIN trajectory_files'
    /\ trajectory_files'[FileOf(k)].turns = Turns(k)

\* C17: a finalize_trajectories call whose open of a JSON file fails propagates
\* the OSError; the trajectory of that file is still in flight and has no new
\* document; every entry the call removed before it has its document written,
\* and nothing else is removed (no clean-up). A call that returns removes an
\* entry only after writing its document, or in the clean-up with the warning.
C17_RemovedOnlyAfterWrite ==
    [][\A step \in Steps :
          /\ (FinalizeCalledFor(step) /\ raised' = "OSError")
                => /\ \E k \in InFlightOfStep(step) :
                         WriteFailedFor(k) /\ DocumentKept(k)
                   /\ \A k \in InFlight :
                         \/ k \notin InFlight' /\ k[1] = step /\ DocumentWritten(k)
                         \/ k \in InFlight' /\ DocumentKept(k)
                   /\ printed' = <<>>
          /\ (FinalizeCalledFor(step) /\ Returned)
                => \A k \in InFlight :
                      k \notin InFlight'
                          => \/ DocumentWritten(k)
                             \/ DocumentKept(k) /\ IsWarning(printed')]_vars

\* C17's case: the call wrote the document of one trajectory of the step and
\* then failed to open the file of another, which is still in flight.
C17_Witness ==
    /\ call.op = "finalize_trajectories"
    /\ raised = "OSError"
    /\ \E k1, k2 \in KeysOfStep(call.step) :
          /\ k1 \notin InFlight
          /\ written[FileOf(k1)] = 1
          /\ trajectory_files[FileOf(k1)].metadata.timestamp = clock - 1
          /\ k2 \in InFlight
          /\ "reward" \in DOMAIN active_trajectories[k2]
          /\ active_trajectories[k2].metadata.timestamp = clock - 1
          /\ written[FileOf(k2)] = 0

\* trajectories[prompt_idx][gen_idx] of the call, for key k
OutcomeOf(k) == call'.trajectories[k[2] + 1][k[3] + 1]

\* C18: the JSON document finalize_trajectories(trajectories, step, mode)
\* writes for key (step, p, g) has metadata step, prompt_idx, gen_idx of the
\* key, mode of the call, trajectory_length, done, terminated_naturally of
\* trajectories[p][g] (0, False, False when absent) and reward of
\* trajectories[p][g] (0.0 when absent); its turns are those of the in-flight
\* entry, whatever trajectory_length says.
C18_DocumentCarriesOutcome ==
    [][\A k \in Keys :
          (/\ FinalizeCalledFor(k[1])
           /\ written'[FileOf(k)] = written[FileOf(k)] + 1)
              => LET doc == trajectory_files'[FileOf(k)]
                     given == DOMAIN OutcomeOf(k)
                 IN  /\ doc.trajectory_id = FileOf(k)
                     /\ doc.metadata.step = k[1]
                     /\ doc.metadata.prompt_idx = k[2]
                     /\ doc.metadata.gen_idx = k[3]
                     /\ doc.metadata.mode = call'.mode
                     /\ doc.metadata.trajectory_length =
                           (IF "trajectory_length" \in given
                            THEN OutcomeOf(k).trajectory_length ELSE 0)
                     /\ doc.metadata.done =
                           (IF "done" \in given THEN OutcomeOf(k).done ELSE FALSE)
                     /\ doc.metadata.terminated_naturally =
                           (IF "terminated_naturally" \in given
                            THEN OutcomeOf(k).terminated_naturally ELSE FALSE)
                     /\ doc.reward =
                           (IF "reward" \in given THEN OutcomeOf(k).reward ELSE 0)
                     /\ doc.turns = Turns(k)]_vars

\* C18's case: one call with mode "eval" wrote a document from a full outcome,
\* whose turn count differs from its trajectory_length, and a document from an
\* empty outcome.
C18_Witness ==
    /\ call.op = "finalize_trajectories"
    /\ call.mode = "eval"
    /\ raised = "none"
    /\ \E i, j \in DOMAIN trajectory_files :
          /\ trajectory_files[i].metadata.timestamp = clock - 1
          /\ trajectory_files[j].metadata.timestamp = clock - 1
          /\ trajectory_files[i].metadata.mode = "eval"
          /\ trajectory_files[i].metadata.done
          /\ trajectory_files[i].reward = -1
          /\ trajectory_files[i].metadata.trajectory_length = 3
          /\ Len(trajectory_files[i].turns) = 1
          /\ ~trajectory_files[j].metadata.done
          /\ trajectory_files[j].reward = 0
          /\ trajectory_files[j].metadata.trajectory_length = 0

\* the per-step counter equals the number of in-flight entries ever created
\* for the step
CounterIsCreations ==
    \A step \in Steps : trajectories_logged_per_step[step] = CreatedInStep(step)

\* C19: the per-step counter never decreases, grows by one with each entry
\* that comes into the in-flight dict, is left as it is by
\* finalize_trajectories and generate_html_report, and in every state equals
\* the number of in-flight entries ever created for the step, those finalized
\* or dropped included.
C19_CounterCountsCreations ==
    [][/\ CounterIsCreations
       /\ CounterIsCreations'
       /\ \A step \in Steps :
             /\ trajectories_logged_per_step'[step] >= trajectories_logged_per_step[step]
             /\ trajectories_logged_per_step'[step] - trajectories_logged_per_step[step]
                   = Cardinality(InFlightOfStep(step)' \ InFlightOfStep(step))
       /\ call'.op \in {"finalize_trajectories", "generate_html_report"}
             => trajectories_logged_per_step' = trajectories_logged_per_step]_vars

\* C19's case: the trajectories of a step were finalized, none is in flight,
\* and a new key of the step has just been turned away: the slots stay used.
C19_Witness ==
    /\ call.op = "log_turn"
    /\ call.traj_key \in turned_away
    /\ created[call.traj_key] = 0
    /\ InFlightOfStep(call.traj_key[1]) = {}
    /\ trajectories_logged_per_step[call.traj_key[1]] = Quota
    /\ \E k \in KeysOfStep(call.traj_key[1]) : written[FileOf(k)] = 1

\* C20: every in-flight entry holds at least one turn, also after a log_turn
\* call that ended with decode raising; a log_turn call that appends no turn
\* creates no in-flight entry and leaves the step's counter as it is.
C20_NoEntryWithoutTurn ==
    [][/\ \A k \in InFlight' : Len(Turns(k)') >= 1
       /\ \A k \in Keys :
             (/\ LogTurnCalledFor(k)
              /\ \/ k \notin InFlight'
                 \/ Len(Turns(k)') = Len(TurnsBefore(k)))
                 => /\ InFlight' = InFlight
                    /\ trajectories_logged_per_step' = trajectories_logged_per_step]_vars

====
